---- MODULE Spec2Model ----
(***************************************************************************)
(* Model of the asset-cache image builder of pack:                         *)
(*   src/create_asset_cache.go                   Client.CreateAssetCache,  *)
(*                                               AssetCacheImage.Save,     *)
(*                                               toDistTar, downloadAssets *)
(*   src/internal/commands/create_asset_cache.go getAssets                 *)
(* Strings that the code only compares or copies (Sha256, ID, URI) are     *)
(* numbers; byte streams are sequences of numbers.                         *)
(***************************************************************************)
EXTENDS Integers, Sequences, FiniteSets, TLC

\* ------------------------------------------------------------------ bounds
MaxID == 2
MaxSha == 2
MaxAssets == 2
MaxBlobLen == 1
MaxBuildpacks == 2
MaxInfoAssets == 2
MaxOptions == 2

\* --------------------------------------------------------------- constants
AssetLayersLabel == "io.buildpacks.asset.layers"
NormalizedDateTime == 315532801
TypeDir == 53
TypeReg == 48
Mode0755 == 493
DigestLen == 2

VARIABLES opts, pc, ret, calls, img, di, assetMap, si, tmpDir, files,
          assetLabel, info, result,
          flags, args, inspectOptions, ti, buildpackInfo, err

vars == <<opts, pc, ret, calls, img, di, assetMap, si, tmpDir, files,
          assetLabel, info, result,
          flags, args, inspectOptions, ti, buildpackInfo, err>>

\* the state of the create-asset-cache command and of tryInspect
cmdVars == <<flags, args, inspectOptions, ti, buildpackInfo, err>>

\* the state of Client.CreateAssetCache and of AssetCacheImage.Save
clientVars == <<img, di, assetMap, si, tmpDir, files, assetLabel, info, result>>

\* ------------------------------------------------------------------- data
\* dist.Asset as a caller passes it: LayerDiffID is the empty string until
\* Save computes it; every record has a URI of its own.
Asset == {[ID |-> id, Name |-> "asset", Version |-> "1.2.3", Sha256 |-> sha,
           Stacks |-> <<"io.buildpacks.stacks.bionic">>,
           URI |-> <<"https", id, sha>>, LayerDiffID |-> <<>>] :
          id \in 1..MaxID, sha \in 1..MaxSha}

RECURSIVE SeqsUpTo(_, _)
SeqsUpTo(S, n) ==
  IF n = 0 THEN {<<>>}
  ELSE LET shorter == SeqsUpTo(S, n - 1)
       IN shorter \cup {Append(s, x) : s \in {t \in shorter : Len(t) = n - 1}, x \in S}

\* the byte contents a downloaded blob may have: one blob of each length
Blobs == {[i \in 1..n |-> i] : n \in 0..MaxBlobLen}

ImageNames == {"test-cache-image", "::::"}

EmptyMap == [k \in {} |-> 0]

MapPut(m, k, v) == [x \in DOMAIN m \cup {k} |-> IF x = k THEN v ELSE m[x]]

Shas(assets) == {assets[i].Sha256 : i \in DOMAIN assets}

\* ------------------------------------------------------------ return value
\* how a call leaves its function: a returned value (nil or an error with its
\* message) or a panic unwinding through the caller
NotReturned == [kind |-> "none", msg |-> ""]
ReturnNil == [kind |-> "nil", msg |-> ""]
ReturnErr(msg) == [kind |-> "error", msg |-> msg]
Panic(msg) == [kind |-> "panic", msg |-> msg]

\* one recorded call on a collaborator (image factory, downloader, image)
\* with its outcome (ok: it returned no error)
Call(op, idx, arg, data, ok) == [op |-> op, idx |-> idx, arg |-> arg, data |-> data, ok |-> ok]

CallsOf(op) == {p \in DOMAIN calls : calls[p].op = op}

\* ------------------------------------------------------------ validateConfig
\* name.NewTag(cfg.ImageName, name.WeakValidation) accepts the name
NewTagOK(imageName) == imageName # "::::"

validateConfigNoCheck(cfg) == [err |-> "", opts |-> [ImageName |-> cfg.ImageName]]

\* lines 197-205
validateConfig(cfg) ==
  IF NewTagOK(cfg.ImageName)
  THEN [err |-> "", opts |-> [ImageName |-> cfg.ImageName]]
  ELSE [err |-> "invalid asset cache image name: ", opts |-> [ImageName |-> ""]]

\* ----------------------------------------------------------------- toDistTar
StrCnb == <<99, 110, 98>>
StrAssets == <<97, 115, 115, 101, 116, 115>>
Slash == <<47>>
ShaBytes(sha) == <<48 + sha>>

RECURSIVE pathJoin(_)
pathJoin(segs) ==
  IF Len(segs) = 0 THEN <<>>
  ELSE IF Len(segs) = 1 THEN segs[1]
  ELSE segs[1] \o Slash \o pathJoin(Tail(segs))

TarHeadersRelative(blobSha, blob) ==
  << [Typeflag |-> TypeDir, Name |-> pathJoin(<<StrCnb>>),
      Mode |-> Mode0755, Size |-> 0, ModTime |-> NormalizedDateTime],
     [Typeflag |-> TypeDir, Name |-> pathJoin(<<StrCnb, StrAssets>>),
      Mode |-> Mode0755, Size |-> 0, ModTime |-> NormalizedDateTime],
     [Typeflag |-> TypeReg, Name |-> pathJoin(<<StrCnb, StrAssets, ShaBytes(blobSha)>>),
      Mode |-> Mode0755, Size |-> Len(blob), ModTime |-> NormalizedDateTime] >>

\* the three tar headers toDistTar writes, in order
TarHeaders(blobSha, blob) ==
  << [Typeflag |-> TypeDir, Name |-> pathJoin(<<StrCnb>>),
      Mode |-> Mode0755, Size |-> 0, ModTime |-> NormalizedDateTime],
     [Typeflag |-> TypeDir, Name |-> pathJoin(<<StrCnb, StrAssets>>),
      Mode |-> Mode0755, Size |-> 0, ModTime |-> NormalizedDateTime],
     [Typeflag |-> TypeReg, Name |-> pathJoin(<<Slash \o StrCnb, StrAssets, ShaBytes(blobSha)>>),
      Mode |-> Mode0755, Size |-> Len(blob), ModTime |-> NormalizedDateTime] >>

\* the words tar.Writer.WriteHeader puts on the stream for one header
HeaderBytes(h) == <<h.Typeflag>> \o h.Name \o <<0, h.Mode, h.Size, h.ModTime>>

\* the successive writes of toDistTar: header, header, header, file contents
TarChunks(blobSha, blob) ==
  LET hs == TarHeaders(blobSha, blob)
  IN <<HeaderBytes(hs[1]), HeaderBytes(hs[2]), HeaderBytes(hs[3]), blob>>

RECURSIVE Concat(_)
Concat(chunks) == IF chunks = <<>> THEN <<>> ELSE Head(chunks) \o Concat(Tail(chunks))

\* the steps of toDistTar that can fail, in the order they run
TarSteps == <<"WriteHeader1", "WriteHeader2", "BlobOpen", "WriteHeader3", "Write">>

\* number of chunks on the stream when step `fail` fails ("none": all of them)
ChunksBefore(fail) ==
  CASE fail = "WriteHeader1" -> 0
    [] fail = "WriteHeader2" -> 1
    [] fail = "BlobOpen" -> 2
    [] fail = "WriteHeader3" -> 2
    [] fail = "Write" -> 3
    [] OTHER -> 4

\* toDistTar: what reached the writer, and whether it returned nil
toDistTar(blobSha, blob, fail) ==
  [out |-> Concat(SubSeq(TarChunks(blobSha, blob), 1, ChunksBefore(fail))),
   ok |-> fail \notin {TarSteps[i] : i \in DOMAIN TarSteps}]

\* -------------------------------------------------------------------- digest
HashMod == 256 ^ DigestLen

\* v1.Hasher: a two-byte running checksum of the bytes written to it: the first
\* byte sums the bytes, the second sums the first after every byte. The sums
\* of a stream are computed from the sums of its two halves.
RECURSIVE HashState(_)
HashState(stream) ==
  IF Len(stream) = 0 THEN <<0, 0>>
  ELSE IF Len(stream) = 1 THEN <<(stream[1] + 1) % 256, (stream[1] + 1) % 256>>
  ELSE LET mid == Len(stream) \div 2
           x == HashState(SubSeq(stream, 1, mid))
           y == HashState(SubSeq(stream, mid + 1, Len(stream)))
       IN <<(x[1] + y[1]) % 256, (x[2] + y[2] + (Len(stream) - mid) * x[1]) % 256>>

\* hash.Sum(nil) after `stream` was written to a new hasher
HashSum(stream) == (HashState(stream)[2] * 256 + HashState(stream)[1]) % HashMod

HexChars == <<"0", "1", "2", "3", "4", "5", "6", "7", "8", "9", "a", "b", "c", "d", "e", "f">>

\* %x of a digest of DigestLen bytes: two hex digits per byte, high byte first
RECURSIVE Hex(_, _)
Hex(n, nbytes) ==
  IF nbytes = 0 THEN <<>>
  ELSE Hex(n \div 256, nbytes - 1) \o <<HexChars[((n % 256) \div 16) + 1], HexChars[(n % 16) + 1]>>

\* fmt.Sprintf("%s:%x", hashAlgo, hash.Sum(nil)) over what the hasher received
DiffIDOf(hashed) == <<"sha256", ":">> \o Hex(HashSum(hashed), DigestLen)

\* ---------------------------------------------------------------- label JSON
RECURSIVE SortedKeys(_)
SortedKeys(S) ==
  IF S = {} THEN <<>>
  ELSE LET m == CHOOSE x \in S : \A y \in S : x <= y
       IN <<m>> \o SortedKeys(S \ {m})

\* json.Encode of the AssetMetadata map: an object, its keys in sorted order
EncodeLabel(label) ==
  LET ks == SortedKeys(DOMAIN label)
  IN [i \in DOMAIN ks |-> <<ks[i], label[ks[i]]>>]

\* json.Decode of a label back into an AssetMetadata map
DecodeLabel(text) ==
  [k \in {text[i][1] : i \in DOMAIN text} |->
     text[CHOOSE i \in DOMAIN text :
            text[i][1] = k /\ \A j \in DOMAIN text : text[j][1] = k => j <= i][2]]

\* ------------------------------------------------------------------- state
\* the flags of a run that did not come through the command
NoFlags == [BuildpackLocator |-> "", Policy |-> "", Registry |-> ""]

NoImage == [created |-> FALSE, name |-> "", layers |-> <<>>, labels |-> EmptyMap, saved |-> FALSE]

NoInfo == [Buildpacks |-> <<>>]

\* every CreateAssetCacheOptions a caller may pass
Options == [ImageName : ImageNames, Assets : SeqsUpTo(Asset, MaxAssets)]

Init ==
  /\ opts \in Options
  /\ pc = "validateConfig"
  /\ ret = NotReturned
  /\ calls = <<>>
  /\ img = NoImage
  /\ di = 1
  /\ assetMap = EmptyMap
  /\ si = 1
  /\ tmpDir = "none"
  /\ files = EmptyMap
  /\ assetLabel = EmptyMap
  /\ info = NoInfo
  /\ result = <<>>
  /\ flags = NoFlags
  /\ args = <<>>
  /\ inspectOptions = <<>>
  /\ ti = 1
  /\ buildpackInfo = <<>>
  /\ err = ""

\* filepath.Join(tmpDir, asset.Sha256)
layerPath(asset) == <<"create-asset-scratch", asset.Sha256>>

\* -------------------------------------------------- Client.CreateAssetCache
\* lines 53-56: validate the options, return the error of an invalid name
ValidateConfig ==
  /\ pc = "validateConfig"
  /\ LET v == validateConfig(opts)
     IN IF v.err # ""
        THEN /\ ret' = ReturnErr(v.err)
             /\ pc' = "done"
        ELSE /\ pc' = "NewImage"
             /\ ret' = ret
  /\ UNCHANGED <<opts, calls, img, di, assetMap, si, tmpDir, files, assetLabel, info, result>>
  /\ UNCHANGED cmdVars

\* lines 60-62: NewImage returned an error; CreateAssetCache returns it wrapped
NewImageFailsIgnored ==
  /\ pc' = "downloadAssets"
  /\ UNCHANGED <<ret, img>>

NewImageFails ==
  /\ ret' = ReturnErr("unable to create asset cache image: ")
  /\ pc' = "done"
  /\ img' = img

\* lines 59-62: imageFactory.NewImage(name, true)
NewImage ==
  /\ pc = "NewImage"
  /\ \E ok \in BOOLEAN :
       /\ calls' = Append(calls, Call("NewImage", 0, validateConfig(opts).opts.ImageName, <<>>, ok))
       /\ IF ok
          THEN /\ img' = [NoImage EXCEPT !.created = TRUE, !.name = validateConfig(opts).opts.ImageName]
               /\ pc' = "downloadAssets"
               /\ ret' = ret
          ELSE NewImageFails
  /\ UNCHANGED <<opts, di, assetMap, si, tmpDir, files, assetLabel, info, result>>
  /\ UNCHANGED cmdVars

\* lines 189-191 and 65-67: Download returned an error; downloadAssets returns
\* it with an empty map and CreateAssetCache panics with it
DownloadFailsSkip ==
  /\ di' = di + 1
  /\ UNCHANGED <<assetMap, ret, pc>>

DownloadFails ==
  /\ assetMap' = EmptyMap
  /\ ret' = Panic("download")
  /\ pc' = "done"
  /\ di' = di

\* what downloader.Download may return: a blob, or an error
DownloadResults == [ok : {TRUE}, blob : Blobs] \cup {[ok |-> FALSE, blob |-> <<>>]}

\* lines 186-193: one iteration of the loop of downloadAssets
Download ==
  /\ pc = "downloadAssets"
  /\ di <= Len(opts.Assets)
  /\ LET asset == opts.Assets[di]
     IN \E r \in DownloadResults :
          /\ calls' = Append(calls, Call("Download", di, asset.URI, r.blob, r.ok))
          /\ IF ~r.ok
             THEN DownloadFails
             ELSE /\ assetMap' = MapPut(assetMap, asset.Sha256, r.blob)
                  /\ di' = di + 1
                  /\ UNCHANGED <<ret, pc>>
  /\ UNCHANGED <<opts, img, si, tmpDir, files, assetLabel, info, result>>
  /\ UNCHANGED cmdVars

\* line 186: the loop of downloadAssets has run over every asset
downloadAssetsDoneEarly == di > 1 \/ di > Len(opts.Assets)

downloadAssetsDone == di > Len(opts.Assets)

\* ------------------------------------------------------ AssetCacheImage.Save
\* line 78: defer os.RemoveAll(tmpDir), run when Save returns or panics
RunDeferred ==
  /\ tmpDir' = "removed"
  /\ files' = EmptyMap

\* a panic raised in Save (or in toDistTar) after the defer was registered
SavePanicNoDefer(msg) ==
  /\ ret' = Panic(msg)
  /\ pc' = "done"
  /\ UNCHANGED <<tmpDir, files>>

SavePanic(msg) ==
  /\ ret' = Panic(msg)
  /\ pc' = "done"
  /\ RunDeferred

\* line 134: Save returns what img.Save returned
SaveReturn(r) ==
  /\ ret' = r
  /\ pc' = "done"
  /\ RunDeferred

\* lines 74-77: Save creates its working directory, or panics
MakeTempDir ==
  /\ \E ok \in BOOLEAN :
       IF ok
       THEN /\ tmpDir' = "exists"
            /\ pc' = "Save"
            /\ ret' = ret
       ELSE /\ ret' = Panic("TempDir")
            /\ pc' = "done"
            /\ tmpDir' = tmpDir
  /\ UNCHANGED <<opts, calls, img, di, assetMap, si, files, assetLabel, info, result>>
  /\ UNCHANGED cmdVars

\* lines 194, 69-77: downloadAssets returns the map, Save creates its
\* working directory
TempDir ==
  /\ pc = "downloadAssets"
  /\ downloadAssetsDone
  /\ MakeTempDir

\* the steps of one loop iteration of Save that can fail, in the order they run
PackSteps == <<"OpenFile">> \o TarSteps \o <<"AddLayer", "Close">>

StepsUpTo(step) ==
  {PackSteps[i] : i \in {j \in DOMAIN PackSteps : \A k \in DOMAIN PackSteps : PackSteps[k] = step => j <= k}}

\* the streams written to the layer files of the iterations before this one
EarlierStreams == Concat([i \in DOMAIN SelectSeq(calls, LAMBDA c : c.op = "AddLayer") |->
                            SelectSeq(calls, LAMBDA c : c.op = "AddLayer")[i].data])

\* lines 99-105: the hasher is made anew in every iteration and receives,
\* through the MultiWriter, the stream of this iteration only
HasherInputShared(earlier, tarOut) == earlier \o tarOut

HasherInput(earlier, tarOut) == tarOut

\* lines 98-116: the digest of what went through the MultiWriter to the hasher
LayerDigestOfBlob(tarOut, blob) == DiffIDOf(blob)

LayerDigest(tarOut, blob) == DiffIDOf(tarOut)

\* line 117: assetLabel[asset.Sha256] = asset
LabelPutByID(label, asset) == MapPut(label, asset.ID, asset)

LabelPut(label, asset) == MapPut(label, asset.Sha256, asset)

\* lines 93-95, 106-114: a failing step of the iteration panics
PackFailsSkip(step) ==
  /\ si' = si + 1
  /\ UNCHANGED <<ret, pc, tmpDir, files>>

PackFails(step) ==
  /\ SavePanic(step)
  /\ si' = si

\* lines 83-86: the asset map has no blob for the asset's Sha256
NoBlobSkip ==
  /\ si' = si + 1
  /\ UNCHANGED <<ret, pc, tmpDir, files, calls, img, assetLabel>>

NoBlob ==
  /\ SavePanic("associated asset blob does not exist")
  /\ UNCHANGED <<calls, img, si, assetLabel>>

\* lines 82-120: one iteration of the loop of Save
PackAsset ==
  /\ pc = "Save"
  /\ si <= Len(opts.Assets)
  /\ LET asset == opts.Assets[si]
     IN IF asset.Sha256 \notin DOMAIN assetMap
        THEN NoBlob
        ELSE \E fail \in {PackSteps[i] : i \in DOMAIN PackSteps} \cup {"none"} :
               LET blob == assetMap[asset.Sha256]
                   tar == toDistTar(asset.Sha256, blob, fail)
                   reached == StepsUpTo(fail)
               IN /\ calls' = IF "AddLayer" \in reached
                              THEN Append(calls, Call("AddLayer", si, layerPath(asset), tar.out, fail # "AddLayer"))
                              ELSE calls
                  /\ IF fail = "none"
                     THEN /\ files' = MapPut(files, layerPath(asset), tar.out)
                          /\ img' = [img EXCEPT !.layers = Append(@, layerPath(asset))]
                          /\ assetLabel' = LabelPut(assetLabel,
                                [asset EXCEPT !.LayerDiffID =
                                   LayerDigest(HasherInput(EarlierStreams, tar.out), blob)])
                          /\ si' = si + 1
                          /\ UNCHANGED <<ret, pc, tmpDir>>
                     ELSE /\ PackFails(fail)
                          /\ img' = IF "Close" \in reached
                                    THEN [img EXCEPT !.layers = Append(@, layerPath(asset))]
                                    ELSE img
                          /\ UNCHANGED <<assetLabel>>
  /\ UNCHANGED <<opts, di, assetMap, info, result>>
  /\ UNCHANGED cmdVars

\* lines 130-132: SetLabel returned an error
SetLabelFails == SavePanic("SetLabel")

\* lines 122-132: encode the label and set it on the image
SetLabel ==
  /\ pc = "Save"
  /\ si > Len(opts.Assets)
  /\ LET text == EncodeLabel(assetLabel)
     IN \E ok \in BOOLEAN :
          /\ calls' = Append(calls, Call("SetLabel", 0, AssetLayersLabel, text, ok))
          /\ IF ok
             THEN /\ img' = [img EXCEPT !.labels = MapPut(@, AssetLayersLabel, text)]
                  /\ pc' = "img.Save"
                  /\ UNCHANGED <<ret, tmpDir, files>>
             ELSE /\ SetLabelFails
                  /\ img' = img
  /\ UNCHANGED <<opts, di, assetMap, si, assetLabel, info, result>>
  /\ UNCHANGED cmdVars

\* line 134: return a.img.Save()
ImgSave ==
  /\ pc = "img.Save"
  /\ \E ok \in BOOLEAN :
       /\ calls' = Append(calls, Call("Save", 0, <<>>, <<>>, ok))
       /\ IF ok
          THEN /\ img' = [img EXCEPT !.saved = TRUE]
               /\ SaveReturn(ReturnNil)
          ELSE /\ img' = img
               /\ SaveReturn(ReturnErr("save"))
  /\ UNCHANGED <<opts, di, assetMap, si, assetLabel, info, result>>
  /\ UNCHANGED cmdVars

Next ==
  \/ ValidateConfig
  \/ NewImage
  \/ Download
  \/ TempDir
  \/ PackAsset
  \/ SetLabel
  \/ ImgSave

Spec == Init /\ [][Next]_vars

\* --------------------------------- NewAssetCacheImage(img, assetMap, assets)
\* AssetCacheImage is exported: Save also runs on an image, an asset map and
\* an asset list handed over by any caller, the map holding blobs for any part
\* of the Sha256 values
AssetMaps == UNION {[D -> Blobs] : D \in SUBSET (1..MaxSha)}

InitSave ==
  /\ opts \in {o \in Options : NewTagOK(o.ImageName)}
  /\ pc = "NewAssetCacheImage"
  /\ ret = NotReturned
  /\ calls = <<>>
  /\ img = [NoImage EXCEPT !.created = TRUE, !.name = opts.ImageName]
  /\ di = 1
  /\ assetMap \in AssetMaps
  /\ si = 1
  /\ tmpDir = "none"
  /\ files = EmptyMap
  /\ assetLabel = EmptyMap
  /\ info = NoInfo
  /\ result = <<>>
  /\ flags = NoFlags
  /\ args = <<>>
  /\ inspectOptions = <<>>
  /\ ti = 1
  /\ buildpackInfo = <<>>
  /\ err = ""

\* lines 44-50, 73-77: the image is constructed and its Save is entered
NewAssetCacheImage ==
  /\ pc = "NewAssetCacheImage"
  /\ MakeTempDir

NextSave ==
  \/ NewAssetCacheImage
  \/ PackAsset
  \/ SetLabel
  \/ ImgSave

SpecSave == InitSave /\ [][NextSave]_vars

\* ------------------------------------------------------------------ getAssets
\* every way to cut `list` into k consecutive (possibly empty) parts
RECURSIVE Splits(_, _)
Splits(list, k) ==
  IF k = 0 THEN (IF list = <<>> THEN {<<>>} ELSE {})
  ELSE UNION {{<<SubSeq(list, 1, c)>> \o rest :
                 rest \in Splits(SubSeq(list, c + 1, Len(list)), k - 1)} : c \in 0..Len(list)}

\* every pack.BuildpackInfo: up to MaxBuildpacks buildpacks listing up to
\* MaxInfoAssets assets between them
Infos ==
  {[Buildpacks |-> [i \in DOMAIN parts |-> [Assets |-> parts[i]]]] :
     parts \in UNION {Splits(l, k) : l \in SeqsUpTo(Asset, MaxInfoAssets), k \in 0..MaxBuildpacks}}

\* the assets in the order the nested loops of lines 133-137 visit them
VisitOrder(bpinfo) == Concat([i \in DOMAIN bpinfo.Buildpacks |-> bpinfo.Buildpacks[i].Assets])

RECURSIVE CollectAssetsFirst(_, _)
CollectAssetsFirst(m, assets) ==
  IF assets = <<>> THEN m
  ELSE CollectAssetsFirst(IF Head(assets).Sha256 \in DOMAIN m THEN m
                          ELSE MapPut(m, Head(assets).Sha256, Head(assets)), Tail(assets))

\* lines 133-137: assetMap[asset.Sha256] = asset for every visited asset
RECURSIVE CollectAssets(_, _)
CollectAssets(m, assets) ==
  IF assets = <<>> THEN m
  ELSE CollectAssets(MapPut(m, Head(assets).Sha256, Head(assets)), Tail(assets))

\* the orders in which `for _, a := range assetMap` may visit the keys
RangeOrders(m) ==
  LET n == Cardinality(DOMAIN m)
  IN {o \in [1..n -> DOMAIN m] : \A i, j \in 1..n : o[i] = o[j] => i = j}

\* line 144: the less function handed to sort.Slice
LessDescending(a, b) == a.ID > b.ID

Less(a, b) == a.ID < b.ID

\* sort.Slice on a short slice: insertion sort, an element moving left while
\* it is less than its left neighbour
RECURSIVE Insert(_, _)
Insert(sorted, x) ==
  IF sorted = <<>> THEN <<x>>
  ELSE IF Less(x, sorted[Len(sorted)])
       THEN Append(Insert(SubSeq(sorted, 1, Len(sorted) - 1), x), sorted[Len(sorted)])
       ELSE Append(sorted, x)

RECURSIVE sortSlice(_)
sortSlice(s) ==
  IF s = <<>> THEN <<>>
  ELSE Insert(sortSlice(SubSeq(s, 1, Len(s) - 1)), s[Len(s)])

\* lines 129-148: the slices getAssets may return for one BuildpackInfo
getAssets(bpinfo) ==
  LET m == CollectAssets(EmptyMap, VisitOrder(bpinfo))
  IN {sortSlice([i \in DOMAIN o |-> m[o[i]]]) : o \in RangeOrders(m)}

InitGetAssets ==
  /\ info \in Infos
  /\ pc = "getAssets"
  /\ result = <<>>
  /\ opts = [ImageName |-> "test-cache-image", Assets |-> <<>>]
  /\ ret = NotReturned
  /\ calls = <<>>
  /\ img = NoImage
  /\ di = 1
  /\ assetMap = EmptyMap
  /\ si = 1
  /\ tmpDir = "none"
  /\ files = EmptyMap
  /\ assetLabel = EmptyMap
  /\ flags = NoFlags
  /\ args = <<>>
  /\ inspectOptions = <<>>
  /\ ti = 1
  /\ buildpackInfo = <<>>
  /\ err = ""

\* the command calls getAssets(buildpackInfo)
GetAssets ==
  /\ pc = "getAssets"
  /\ result' \in getAssets(info)
  /\ pc' = "getAssets.done"
  /\ UNCHANGED <<opts, ret, calls, img, di, assetMap, si, tmpDir, files, assetLabel, info>>
  /\ UNCHANGED cmdVars

NextGetAssets == GetAssets

SpecGetAssets == InitGetAssets /\ [][NextGetAssets]_vars

\* ----------------------------------------------------------------- tryInspect
\* image.ErrNotFound
ErrNotFound == "not found"

\* errors.Is(err, image.ErrNotFound): the error itself or an error wrapping it
ErrorsIsNotFound(e) == e \in {ErrNotFound, "inspecting buildpack: not found"}

\* every pack.InspectBuildpackOptions
InspectBuildpackOptions ==
  [BuildpackName : {"some-buildpack"}, Daemon : BOOLEAN, Registry : {"default-registry"}]

\* what c.InspectBuildpack may return: a *BuildpackInfo (<<>> is nil) with a
\* nil error, or an error
InspectResults ==
  [info : {<<>>} \cup {<<i>> : i \in Infos}, err : {""}]
    \cup [info : {<<>>}, err : {ErrNotFound, "inspecting buildpack: not found", "inspect failed"}]

InspectSwitchNoContinue(r) ==
  /\ buildpackInfo' = IF r.err # "" THEN <<>> ELSE r.info
  /\ err' = r.err
  /\ pc' = "tryInspect.done"
  /\ ti' = ti

\* lines 109-116: not found continues with the next option, any other error
\* returns (nil, err), no error returns (buildpackInfo, nil)
InspectSwitch(r) ==
  IF ErrorsIsNotFound(r.err)
  THEN /\ buildpackInfo' = r.info
       /\ err' = r.err
       /\ ti' = ti + 1
       /\ pc' = pc
  ELSE IF r.err # ""
  THEN /\ buildpackInfo' = <<>>
       /\ err' = r.err
       /\ pc' = "tryInspect.done"
       /\ ti' = ti
  ELSE /\ buildpackInfo' = r.info
       /\ err' = ""
       /\ pc' = "tryInspect.done"
       /\ ti' = ti

\* lines 107-116: one iteration of the loop of tryInspect
InspectBuildpack ==
  /\ pc = "tryInspect"
  /\ ti <= Len(inspectOptions)
  /\ \E r \in InspectResults :
       /\ calls' = Append(calls, Call("InspectBuildpack", ti, inspectOptions[ti],
                                      <<r.err>> \o r.info, r.err = ""))
       /\ InspectSwitch(r)
  /\ UNCHANGED <<opts, ret, flags, args, inspectOptions>>
  /\ UNCHANGED clientVars

\* line 119: the loop ran out of options; return nil, image.ErrNotFound
TryInspectNotFound ==
  /\ pc = "tryInspect"
  /\ ti > Len(inspectOptions)
  /\ buildpackInfo' = <<>>
  /\ err' = ErrNotFound
  /\ pc' = "tryInspect.done"
  /\ UNCHANGED <<opts, ret, calls, flags, args, inspectOptions, ti>>
  /\ UNCHANGED clientVars

InitTryInspect ==
  /\ inspectOptions \in SeqsUpTo(InspectBuildpackOptions, MaxOptions)
  /\ pc = "tryInspect"
  /\ ti = 1
  /\ buildpackInfo = <<>>
  /\ err = ""
  /\ flags = NoFlags
  /\ args = <<>>
  /\ opts = [ImageName |-> "", Assets |-> <<>>]
  /\ ret = NotReturned
  /\ calls = <<>>
  /\ img = NoImage
  /\ di = 1
  /\ assetMap = EmptyMap
  /\ si = 1
  /\ tmpDir = "none"
  /\ files = EmptyMap
  /\ assetLabel = EmptyMap
  /\ info = NoInfo
  /\ result = <<>>

NextTryInspect ==
  \/ InspectBuildpack
  \/ TryInspectNotFound

SpecTryInspect == InitTryInspect /\ [][NextTryInspect]_vars

\* ------------------------------------------- the create-asset-cache command
\* the flags a user may pass: --buildpack, --pull-policy, --buildpack-registry
Flags ==
  [BuildpackLocator : {"", "some-buildpack"},
   Policy : {"always", "never", "if-not-present", "sometimes"},
   Registry : {"default-registry"}]

\* pubcfg.ParsePullPolicy: the accepted values are always, never and
\* if-not-present; any other value is an error
ParsePullPolicy(stringPolicy) ==
  CASE stringPolicy = "always" -> [policy |-> "PullAlways", err |-> ""]
    [] stringPolicy = "never" -> [policy |-> "PullNever", err |-> ""]
    [] stringPolicy = "if-not-present" -> [policy |-> "PullIfNotPresent", err |-> ""]
    [] OTHER -> [policy |-> "PullAlways", err |-> "invalid pull policy"]

InspectOptionsRemoteFirst(pullPolicy, f) ==
  LET option(daemon) == [BuildpackName |-> f.BuildpackLocator, Daemon |-> daemon,
                         Registry |-> f.Registry]
  IN <<option(FALSE), option(TRUE)>>

\* lines 46-74: the inspect options of a pull policy
InspectOptionsFor(pullPolicy, f) ==
  LET option(daemon) == [BuildpackName |-> f.BuildpackLocator, Daemon |-> daemon,
                         Registry |-> f.Registry]
  IN CASE pullPolicy = "PullNever" -> <<option(TRUE)>>
       [] pullPolicy = "PullAlways" -> <<option(FALSE), option(TRUE)>>
       [] pullPolicy = "PullIfNotPresent" -> <<option(TRUE), option(FALSE)>>
       [] OTHER -> <<>>

InitCmd ==
  /\ flags \in Flags
  /\ args \in {<<n>> : n \in ImageNames}
  /\ pc = "validateAssetCacheFlags"
  /\ inspectOptions = <<>>
  /\ ti = 1
  /\ buildpackInfo = <<>>
  /\ err = ""
  /\ opts = [ImageName |-> "", Assets |-> <<>>]
  /\ ret = NotReturned
  /\ calls = <<>>
  /\ img = NoImage
  /\ di = 1
  /\ assetMap = EmptyMap
  /\ si = 1
  /\ tmpDir = "none"
  /\ files = EmptyMap
  /\ assetLabel = EmptyMap
  /\ info = NoInfo
  /\ result = <<>>

\* lines 35-37, 122-127: an empty buildpack locator is returned as an error
ValidateAssetCacheFlags ==
  /\ pc = "validateAssetCacheFlags"
  /\ IF flags.BuildpackLocator = ""
     THEN /\ ret' = ReturnErr("must specify a buildpack locator using the --buildpack flag")
          /\ pc' = "done"
     ELSE /\ pc' = "ParsePullPolicy"
          /\ ret' = ret
  /\ UNCHANGED <<opts, calls>>
  /\ UNCHANGED cmdVars
  /\ UNCHANGED clientVars

\* lines 39-74: parse the policy (panic on an error) and build the options
PullPolicySwitch ==
  /\ pc = "ParsePullPolicy"
  /\ LET parsed == ParsePullPolicy(flags.Policy)
     IN IF parsed.err # ""
        THEN /\ ret' = Panic(parsed.err)
             /\ pc' = "done"
             /\ inspectOptions' = inspectOptions
        ELSE /\ inspectOptions' = InspectOptionsFor(parsed.policy, flags)
             /\ pc' = "tryInspect"
             /\ ret' = ret
  /\ UNCHANGED <<opts, calls, flags, args, ti, buildpackInfo, err>>
  /\ UNCHANGED clientVars

\* lines 76-91: panic on an error or a nil info, else call
\* client.CreateAssetCache with the image name and getAssets(buildpackInfo)
\* and panic on its error
CreateAssetCache ==
  /\ pc = "tryInspect.done"
  /\ pc' = "done"
  /\ IF err # ""
     THEN /\ ret' = Panic(err)
          /\ UNCHANGED <<opts, calls>>
     ELSE IF buildpackInfo = <<>>
     THEN /\ ret' = Panic("no image found")
          /\ UNCHANGED <<opts, calls>>
     ELSE \E assets \in getAssets(buildpackInfo[1]), ok \in BOOLEAN :
            /\ opts' = [ImageName |-> args[1], Assets |-> assets]
            /\ calls' = Append(calls, Call("CreateAssetCache", 0, args[1], <<>>, ok))
            /\ ret' = IF ok THEN ReturnNil ELSE Panic("create asset cache")
  /\ UNCHANGED cmdVars
  /\ UNCHANGED clientVars

NextCmd ==
  \/ ValidateAssetCacheFlags
  \/ PullPolicySwitch
  \/ InspectBuildpack
  \/ TryInspectNotFound
  \/ CreateAssetCache

SpecCmd == InitCmd /\ [][NextCmd]_vars

\* ===================================================================== claims
HexCharSet == {HexChars[i] : i \in DOMAIN HexChars}

Succeeded == pc = "done" /\ ret.kind = "nil"

\* the label the image carries, decoded
ImageLabel == DecodeLabel(img.labels[AssetLayersLabel])

\* C1: whenever the image's Save has been invoked, AddLayer was invoked
\* (and succeeded) earlier for every asset of the list and SetLabel was
\* invoked earlier with a mapping that has an entry for every asset; the image
\* saved holds every layer and the label.
C1_SaveAfterAllLayersAndLabel ==
  \A p \in CallsOf("Save") :
    /\ \A i \in DOMAIN opts.Assets :
         \E q \in CallsOf("AddLayer") : q < p /\ calls[q].idx = i /\ calls[q].ok
    /\ \E q \in CallsOf("SetLabel") :
         /\ q < p
         /\ calls[q].ok
         /\ Shas(opts.Assets) \subseteq DOMAIN DecodeLabel(calls[q].data)
    /\ \A i \in DOMAIN opts.Assets :
         \E l \in DOMAIN img.layers : img.layers[l] = layerPath(opts.Assets[i])
    /\ AssetLayersLabel \in DOMAIN img.labels

C1_Witness ==
  /\ CallsOf("Save") # {}
  /\ Len(opts.Assets) >= 2
  /\ Cardinality(Shas(opts.Assets)) >= 2

\* C2: with an invalid image name the run performs no call on the image
\* factory, the downloader or an image, never gets past the validation, and
\* ends by returning the error "invalid asset cache image name: ".
C2_InvalidNameNoCalls ==
  ~NewTagOK(opts.ImageName) =>
    /\ calls = <<>>
    /\ img = NoImage
    /\ pc \in {"validateConfig", "done"}
    /\ (pc = "done" => ret = ReturnErr("invalid asset cache image name: "))

C2_Witness ==
  /\ ~NewTagOK(opts.ImageName)
  /\ pc = "done"
  /\ Len(opts.Assets) >= 1

\* C3: every finished build hands its outcome to the caller as a returned
\* value (nil or an error); no failing step leaves CreateAssetCache by
\* anything but a return.
C3_FailureIsReturned ==
  pc = "done" => ret.kind \in {"nil", "error"}

\* C4: once the download of any asset has failed, the build is over and has
\* not succeeded, and no AddLayer, SetLabel or Save is ever performed.
C4_FailedDownloadNoImage ==
  (\E p \in CallsOf("Download") : ~calls[p].ok) =>
    /\ pc = "done"
    /\ ret.kind \in {"error", "panic"}
    /\ CallsOf("AddLayer") = {}
    /\ CallsOf("SetLabel") = {}
    /\ CallsOf("Save") = {}
    /\ ~img.saved

C4_Witness ==
  /\ \E p \in CallsOf("Download") : ~calls[p].ok /\ calls[p].idx >= 2
  /\ pc = "done"

C6_OneLayerPerUniqueAsset ==
  Succeeded => Cardinality(CallsOf("AddLayer")) = Cardinality(Shas(opts.Assets))

\* C7: once the label is set on the image, every entry's LayerDiffID is
\* "sha256:" followed by hex digits and is the digest of the bytes in that
\* asset's own layer file, the file handed to AddLayer for that asset.
C7_DiffIDIsDigestOfLayerFile ==
  pc = "img.Save" =>
    \A k \in DOMAIN ImageLabel :
      LET id == ImageLabel[k].LayerDiffID
          path == layerPath(ImageLabel[k])
      IN /\ id # <<>>
         /\ Len(id) = 2 + 2 * DigestLen
         /\ id[1] = "sha256" /\ id[2] = ":"
         /\ \A i \in 3..Len(id) : id[i] \in HexCharSet
         /\ path \in DOMAIN files
         /\ \E l \in DOMAIN img.layers : img.layers[l] = path
         /\ id = DiffIDOf(files[path])
         /\ \E q \in CallsOf("AddLayer") :
              /\ calls[q].arg = path
              /\ opts.Assets[calls[q].idx].Sha256 = k
              /\ id = DiffIDOf(calls[q].data)

C7_Witness ==
  /\ pc = "img.Save"
  /\ Cardinality(DOMAIN ImageLabel) >= 2
  /\ \E j, k \in DOMAIN ImageLabel : ImageLabel[j].LayerDiffID # ImageLabel[k].LayerDiffID

\* C8: when the build is over, a working directory that was created has been
\* removed with everything in it, whether Save returned nil, returned the
\* error of the image's Save, or panicked.
C8_WorkingDirRemoved ==
  pc = "done" => (tmpDir # "exists" /\ files = EmptyMap)

C8_Witness ==
  /\ pc = "done"
  /\ ret.kind = "panic"
  /\ tmpDir = "removed"
  /\ CallsOf("AddLayer") # {}

\* C9 as stated: the download of the asset at position i + 1 is preceded by
\* the AddLayer of the asset at position i.
C9_AttachBeforeNextFetch ==
  \A p \in CallsOf("Download") :
    calls[p].idx > 1 =>
      \E q \in CallsOf("AddLayer") : q < p /\ calls[q].idx = calls[p].idx - 1

\* C9 amended: every asset of the list is downloaded before the first AddLayer
\* and no download follows an AddLayer; the downloads happen in list order and
\* the AddLayer calls happen in list order.
C9_AllFetchesBeforeFirstAttach ==
  /\ \A q \in CallsOf("AddLayer") :
       /\ \A i \in DOMAIN opts.Assets :
            \E p \in CallsOf("Download") : p < q /\ calls[p].idx = i /\ calls[p].ok
       /\ \A p \in CallsOf("Download") : p < q
  /\ \A p, q \in CallsOf("Download") : p < q => calls[p].idx < calls[q].idx
  /\ \A p, q \in CallsOf("AddLayer") : p < q => calls[p].idx < calls[q].idx

C9_Witness ==
  /\ Cardinality(CallsOf("AddLayer")) >= 2
  /\ Cardinality(CallsOf("Download")) >= 2

\* C10: getAssets returns exactly one record per distinct Sha256 of its input
\* (none missing, none repeated), every returned record is a record of the
\* input, the records are in ascending order of ID, and an input without
\* assets yields the empty sequence.
C10_getAssetsDedupSorted ==
  pc = "getAssets.done" =>
    LET input == VisitOrder(info)
    IN /\ Shas(result) = Shas(input)
       /\ \A i, j \in DOMAIN result : result[i].Sha256 = result[j].Sha256 => i = j
       /\ \A i \in DOMAIN result : \E j \in DOMAIN input : result[i] = input[j]
       /\ \A i, j \in DOMAIN result : i < j => result[i].ID <= result[j].ID
       /\ (input = <<>> => result = <<>>)

C10_Witness ==
  /\ pc = "getAssets.done"
  /\ Len(VisitOrder(info)) > Len(result)
  /\ Len(result) >= 1

\* positions of the records of `input` that carry the Sha256 `sha`
Occurrences(input, sha) == {j \in DOMAIN input : input[j].Sha256 = sha}

\* C11 as stated: every record getAssets returns is the first record of the
\* input, in visiting order, that carries its Sha256.
C11_FirstOccurrenceKept ==
  pc = "getAssets.done" =>
    LET input == VisitOrder(info)
    IN \A i \in DOMAIN result :
         \E j \in Occurrences(input, result[i].Sha256) :
           /\ result[i] = input[j]
           /\ \A k \in Occurrences(input, result[i].Sha256) : j <= k

\* C11 amended: every record getAssets returns is the last record of the
\* input, in visiting order, that carries its Sha256.
C11_LastOccurrenceKept ==
  pc = "getAssets.done" =>
    LET input == VisitOrder(info)
    IN \A i \in DOMAIN result :
         \E j \in Occurrences(input, result[i].Sha256) :
           /\ result[i] = input[j]
           /\ \A k \in Occurrences(input, result[i].Sha256) : k <= j

C11_Witness ==
  /\ pc = "getAssets.done"
  /\ \E j, k \in DOMAIN VisitOrder(info) :
       /\ j < k
       /\ VisitOrder(info)[j].Sha256 = VisitOrder(info)[k].Sha256
       /\ VisitOrder(info)[j] # VisitOrder(info)[k]
       /\ \E i \in DOMAIN result : result[i] = VisitOrder(info)[k]

\* the two sequences hold the same records the same number of times
IsPermutation(s, t) ==
  \A x \in Asset :
    Cardinality({i \in DOMAIN s : s[i] = x}) = Cardinality({i \in DOMAIN t : t[i] = x})

\* C12: whatever getAssets returned for an input, it returns the same records
\* in the same order for every input that is a permutation of it.
C12_PermutationSameResult ==
  pc = "getAssets.done" =>
    \A other \in Infos :
      IsPermutation(VisitOrder(other), VisitOrder(info)) =>
        \A r \in getAssets(other) : r = result

\* C13 as stated: two assets packed from equal blob bytes carry equal
\* LayerDiffID values.
C13_SameBytesSameDiffID ==
  \A j, k \in DOMAIN assetLabel \cap DOMAIN assetMap :
    assetMap[j] = assetMap[k] => assetLabel[j].LayerDiffID = assetLabel[k].LayerDiffID

\* C13 amended: the LayerDiffID computed for an asset is fixed by the asset's
\* Sha256 and its blob bytes alone (the digest of the stream toDistTar writes
\* for that pair), whatever the position of the asset and whatever was packed
\* before it; equal Sha256 and equal bytes give equal LayerDiffID.
C13_DiffIDFixedByShaAndBytes ==
  \A k \in DOMAIN assetLabel \cap DOMAIN assetMap :
    assetLabel[k].LayerDiffID = DiffIDOf(Concat(TarChunks(k, assetMap[k])))

C13_Witness ==
  /\ pc = "Save"
  /\ si > 2
  /\ opts.Assets[1].Sha256 = opts.Assets[2].Sha256
  /\ assetMap[opts.Assets[1].Sha256] # <<>>
  /\ Cardinality(CallsOf("AddLayer")) >= 2

\* reading a layer stream back: its entries, each a header with its contents
RECURSIVE ParseTar(_)
ParseTar(s) ==
  IF s = <<>> THEN <<>>
  ELSE LET z == CHOOSE i \in 2..Len(s) : s[i] = 0 /\ \A j \in 2..(i - 1) : s[j] # 0
           size == s[z + 2]
       IN <<[Typeflag |-> s[1], Name |-> SubSeq(s, 2, z - 1), Mode |-> s[z + 1],
             Size |-> size, ModTime |-> s[z + 3], Body |-> SubSeq(s, z + 4, z + 3 + size)]>>
          \o ParseTar(SubSeq(s, z + 4 + size, Len(s)))

\* C14: the layer file handed to AddLayer holds exactly three entries, in
\* this order: directory "cnb", directory "cnb/assets", regular file
\* "/cnb/assets/<Sha256>" whose size is the blob's length and whose contents
\* are the blob's bytes; all three have mode 0755 and the same fixed time.
C14_ThreeEntriesLayout ==
  \A p \in CallsOf("AddLayer") :
    LET sha == opts.Assets[calls[p].idx].Sha256
        blob == assetMap[sha]
        es == ParseTar(calls[p].data)
    IN /\ Len(es) = 3
       /\ es[1].Typeflag = TypeDir /\ es[1].Name = <<99, 110, 98>>
       /\ es[1].Size = 0 /\ es[1].Body = <<>>
       /\ es[2].Typeflag = TypeDir
       /\ es[2].Name = <<99, 110, 98, 47, 97, 115, 115, 101, 116, 115>>
       /\ es[2].Size = 0 /\ es[2].Body = <<>>
       /\ es[3].Typeflag = TypeReg
       /\ es[3].Name = <<47, 99, 110, 98, 47, 97, 115, 115, 101, 116, 115, 47>> \o ShaBytes(sha)
       /\ es[3].Size = Len(blob) /\ es[3].Body = blob
       /\ \A i \in 1..3 : es[i].Mode = 493 /\ es[i].ModTime = NormalizedDateTime

C14_Witness ==
  \E p \in CallsOf("AddLayer") :
    /\ calls[p].ok
    /\ assetMap[opts.Assets[calls[p].idx].Sha256] # <<>>

\* C15: when a build has finished, the Download calls it made number the
\* distinct Sha256 values of its asset list, and no URI was fetched again after
\* a failed Download.
C15_OneDownloadPerUniqueSha ==
  /\ Succeeded => Cardinality(CallsOf("Download")) = Cardinality(Shas(opts.Assets))
  /\ \A p \in CallsOf("Download") : ~calls[p].ok => \A q \in CallsOf("Download") : q <= p

\* C16: when NewImage failed, CreateAssetCache has returned the error
\* "unable to create asset cache image: ..." and the run made no other call:
\* no Download, no AddLayer, no SetLabel, no Save, and no image exists.
C16_NewImageFailureNoFurtherCalls ==
  \A p \in CallsOf("NewImage") :
    ~calls[p].ok =>
      /\ pc = "done"
      /\ ret = ReturnErr("unable to create asset cache image: ")
      /\ Len(calls) = 1
      /\ \A op \in {"Download", "AddLayer", "SetLabel", "Save"} : CallsOf(op) = {}
      /\ img = NoImage

C16_Witness ==
  /\ pc = "done"
  /\ \E p \in CallsOf("NewImage") : ~calls[p].ok
  /\ opts.Assets # <<>>

\* the list positions whose Sha256 has no blob in the asset map
MissingBlob == {i \in DOMAIN opts.Assets : opts.Assets[i].Sha256 \notin DOMAIN assetMap}

\* C17: when the list Save works on has an asset without a blob in the asset
\* map, Save never goes past the first such asset: no AddLayer is made for it
\* or for any later asset, SetLabel and the image's Save are never invoked,
\* and Save ends in a panic, which on reaching that asset is the panic
\* "associated asset blob does not exist".
C17_MissingBlobIsFatal ==
  MissingBlob # {} =>
    LET m == CHOOSE i \in MissingBlob : \A j \in MissingBlob : i <= j
    IN /\ si <= m
       /\ \A p \in CallsOf("AddLayer") : calls[p].idx < m
       /\ CallsOf("SetLabel") = {} /\ CallsOf("Save") = {}
       /\ pc # "img.Save" /\ ~img.saved
       /\ pc = "done" => ret.kind = "panic"
       /\ (pc = "done" /\ si = m /\ tmpDir = "removed")
            => ret = Panic("associated asset blob does not exist")

C17_Witness ==
  /\ pc = "done"
  /\ ret = Panic("associated asset blob does not exist")
  /\ MissingBlob # {}
  /\ CallsOf("AddLayer") # {}
  /\ si < Len(opts.Assets) + 1

\* the error and the info the p-th logged InspectBuildpack call returned
CallErr(p) == calls[p].data[1]

CallInfo(p) == Tail(calls[p].data)

\* C18: tryInspect calls InspectBuildpack on the options strictly in list
\* order, every call but the last having reported not found; once it has
\* returned, either the last call succeeded and its info is returned with no
\* error, or the last call failed otherwise and its error is returned with no
\* info, or every option of the list (possibly none) reported not found and
\* ErrNotFound is returned with no info.
C18_TryInspectInOrderUntilDecisive ==
  /\ \A p \in DOMAIN calls :
       /\ calls[p].op = "InspectBuildpack"
       /\ calls[p].idx = p
       /\ p <= Len(inspectOptions)
       /\ calls[p].arg = inspectOptions[p]
       /\ p < Len(calls) => ErrorsIsNotFound(CallErr(p))
  /\ (pc = "tryInspect" /\ calls # <<>>) => ErrorsIsNotFound(CallErr(Len(calls)))
  /\ pc = "tryInspect.done" =>
       IF calls # <<>> /\ ~ErrorsIsNotFound(CallErr(Len(calls)))
       THEN /\ err = CallErr(Len(calls))
            /\ buildpackInfo = IF err = "" THEN CallInfo(Len(calls)) ELSE <<>>
       ELSE /\ Len(calls) = Len(inspectOptions)
            /\ err = ErrNotFound
            /\ buildpackInfo = <<>>

C18_Witness ==
  /\ pc = "tryInspect.done"
  /\ Len(inspectOptions) = MaxOptions
  /\ Len(calls) = 2
  /\ ErrorsIsNotFound(CallErr(1))
  /\ err = ""
  /\ buildpackInfo # <<>>

\* the Daemon fields of the InspectBuildpack calls made so far, in call order
InspectedDaemon ==
  [p \in 1..Cardinality(CallsOf("InspectBuildpack")) |-> calls[p].arg.Daemon]

\* C19: with policy never the only source inspected is the daemon; with
\* policy always the remote is inspected first and the daemon only after the
\* remote reported not found; with policy if-not-present the daemon is
\* inspected first and the remote only after the daemon reported not found.
C19_PolicyFixesInspectOrder ==
  /\ \A p \in CallsOf("InspectBuildpack") :
       p <= Cardinality(CallsOf("InspectBuildpack"))
  /\ Len(InspectedDaemon) >= 2 => ErrorsIsNotFound(CallErr(1))
  /\ CASE flags.Policy = "never" -> InspectedDaemon \in {<<>>, <<TRUE>>}
       [] flags.Policy = "always" -> InspectedDaemon \in {<<>>, <<FALSE>>, <<FALSE, TRUE>>}
       [] flags.Policy = "if-not-present" -> InspectedDaemon \in {<<>>, <<TRUE>>, <<TRUE, FALSE>>}
       [] OTHER -> InspectedDaemon = <<>>

C19_Witness ==
  /\ pc = "done"
  /\ flags.Policy = "if-not-present"
  /\ InspectedDaemon = <<TRUE, FALSE>>
  /\ CallsOf("CreateAssetCache") # {}

====
